---- MODULE Spec2Model ----
(***************************************************************************)
(* Model of src/src/gol.rs: the Region buffer (coordinate mapping, cell    *)
(* get/set, edge resize, translation, overlap copy) and the GameOfLife     *)
(* world that steps its regions.                                           *)
(*                                                                         *)
(* A Region is the record [x, y, width, height, state]; state is the       *)
(* Vec<Vec<Cell>> as a sequence of columns, each a sequence of cells, so   *)
(* that a buffer whose shape disagrees with width/height is representable. *)
(* Local (0-based) index (lx, ly) is state[lx + 1][ly + 1].                *)
(* Option<T> is a sequence of length 0 (None) or 1 (Some).                 *)
(* A Rust panic is modelled by the flag panicked: the call stops where it  *)
(* panics, the object keeps what was written up to there, and no further   *)
(* call is made.                                                           *)
(* isize and usize keep a width (ISIZE_MAX, scaled down); `-` and `-=` on  *)
(* isize panic or wrap on overflow as the build's overflow-checks setting  *)
(* says, which is fixed for a run.                                         *)
(***************************************************************************)
EXTENDS Integers, Sequences, FiniteSets, TLC

VARIABLES
    regions,    \* GameOfLife.regions : Vec<Region>
    region,     \* a Region driven through its own API (self)
    other,      \* the Region passed as `other` to populate_overlap
    panicked,   \* TRUE once a call has panicked
    calls,      \* number of Region API calls made on `region`
    op,         \* name of the last operation performed
    ret,        \* arguments and return value of the last query made
    overflow_checks
                \* the build's overflow-checks setting: TRUE (the dev and
                \* test profiles) makes isize arithmetic that overflows
                \* panic, FALSE (the release profile) makes it wrap

vars == <<regions, region, other, panicked, calls, op, ret, overflow_checks>>

----------------------------------------------------------------------------
(* Bounds of the model *)

\* isize::MAX, scaled down
ISIZE_MAX == 127
\* largest width/height of a Region drawn as an input of the Region API
MaxDim == 2
\* anchors of input regions are drawn from -MaxAnchor .. 0
MaxAnchor == 1
\* |amount|, |dx|, |dy| of adjust_size / move_region are at most MaxAmount
MaxAmount == 3
\* number of Region API calls made on one region
MaxCalls == 2
\* largest width/height of a region of the worlds that start all Dead
MaxWorldDim == 3
\* largest width/height of the region of a world that starts with a pattern
MaxLifeDim == 5
\* longest Vec the allocator grants; a longer one ends the call (capacity
\* overflow panic above isize::MAX bytes, allocation failure below)
MaxAlloc == 16

USIZE_MAX == 2 * ISIZE_MAX + 1

ISIZE_MIN == -ISIZE_MAX - 1

----------------------------------------------------------------------------
(* Cell, Option, Edge *)

Cell == {"Dead", "Alive"}

Edge == {"X", "Y", "NegX", "NegY"}

None == <<>>

Some(v) == <<v>>

IsSome(o) == Len(o) = 1

----------------------------------------------------------------------------
(* Integer helpers of the standard library, as used by gol.rs *)

\* isize::checked_add_unsigned
checked_add_unsigned(a, u) ==
    IF a + u > ISIZE_MAX THEN None ELSE Some(a + u)

\* isize::saturating_add_unsigned
saturating_add_unsigned(a, u) ==
    IF a + u > ISIZE_MAX THEN ISIZE_MAX ELSE a + u

\* usize::saturating_add_signed
saturating_add_signed(u, d) ==
    IF u + d < 0 THEN 0
    ELSE IF u + d > USIZE_MAX THEN USIZE_MAX
    ELSE u + d

\* the isize that a - b wraps to (two's complement)
wrapping_sub(a, b) ==
    ((a - b - ISIZE_MIN) % (USIZE_MAX + 1)) + ISIZE_MIN

\* `a - b` on isize overflows
sub_overflows(a, b) ==
    a - b > ISIZE_MAX \/ a - b < ISIZE_MIN

\* `v as usize` for an isize v
as_usize(v) == v % (USIZE_MAX + 1)

----------------------------------------------------------------------------
(* Vec helpers of the standard library, as used by gol.rs *)

\* vec![v; n]
Repeat(v, n) == [i \in 1..n |-> v]

\* Vec::resize(n, fill): truncate, or extend with clones of fill
Resize(s, n, fill) ==
    IF n <= Len(s) THEN SubSeq(s, 1, n)
    ELSE s \o Repeat(fill, n - Len(s))

\* slice::rotate_left(mid), defined for mid <= len (it panics otherwise)
RotateLeft(s, mid) ==
    [i \in 1..Len(s) |-> s[((i - 1 + mid) % Len(s)) + 1]]

\* slice::rotate_right(k), defined for k <= len (it panics otherwise)
RotateRight(s, k) ==
    [i \in 1..Len(s) |-> s[((i - 1 - k + Len(s)) % Len(s)) + 1]]

\* `for column in &mut self.state { ... }` where res[i] = [col, panic] is
\* what the body makes of column i: columns are processed in order up to and
\* including the first one whose body panics.
ForEachColumn(state, res) ==
    LET bad == {i \in 1..Len(state) : res[i].panic}
        k == IF bad = {} THEN 0 ELSE CHOOSE i \in bad : \A j \in bad : i <= j
    IN [state |-> [i \in 1..Len(state) |->
                       IF k = 0 \/ i <= k THEN res[i].col ELSE state[i]],
        panic |-> k # 0]

----------------------------------------------------------------------------
(* Region *)

\* Region::new
Region_new(x, y, width, height) ==
    [x |-> x, y |-> y, width |-> width, height |-> height,
     state |-> Repeat(Repeat("Dead", height), width)]

\* Region::pos_in_bounds
Region_pos_in_bounds(R, x, y) ==
    IF x < R.x THEN FALSE
    ELSE IF y < R.y THEN FALSE
    ELSE LET nx == checked_add_unsigned(R.x, R.width)
             ny == checked_add_unsigned(R.y, R.height)
         IN IF ~IsSome(nx) THEN FALSE
            ELSE IF x >= nx[1] THEN FALSE
            ELSE IF ~IsSome(ny) THEN FALSE
            ELSE IF y >= ny[1] THEN FALSE
            ELSE TRUE

\* Region::pos_to_local panics: `x-self.x` or `y-self.y` overflows in a
\* build with overflow checks
Region_pos_to_local_panics(R, x, y) ==
    /\ Region_pos_in_bounds(R, x, y)
    /\ overflow_checks
    /\ (sub_overflows(x, R.x) \/ sub_overflows(y, R.y))

\* Region::pos_to_local, where it does not panic
Region_pos_to_local(R, x, y) ==
    IF ~Region_pos_in_bounds(R, x, y) THEN None
    ELSE Some(<<as_usize(wrapping_sub(x, R.x)), as_usize(wrapping_sub(y, R.y))>>)

\* self.state[x][y] with local x, y: the index is out of range
IndexPanics(R, lx, ly) ==
    \/ lx >= Len(R.state)
    \/ ly >= Len(R.state[lx + 1])

\* Region::get_cell panics (in pos_to_local, or index out of range of the
\* buffer)
Region_get_cell_panics(R, x, y) ==
    LET l == Region_pos_to_local(R, x, y)
    IN \/ Region_pos_to_local_panics(R, x, y)
       \/ IsSome(l) /\ IndexPanics(R, l[1][1], l[1][2])

\* Region::get_cell, where it does not panic
Region_get_cell(R, x, y) ==
    LET l == Region_pos_to_local(R, x, y)
    IN IF ~IsSome(l) THEN None
       ELSE Some(R.state[l[1][1] + 1][l[1][2] + 1])

\* Region::set_cell: [r, panic]
Region_set_cell(R, x, y, s) ==
    IF ~Region_pos_in_bounds(R, x, y) THEN [r |-> R, panic |-> FALSE]
    ELSE IF Region_pos_to_local_panics(R, x, y) THEN [r |-> R, panic |-> TRUE]
    ELSE LET l == Region_pos_to_local(R, x, y)
         IN IF ~IsSome(l) THEN [r |-> R, panic |-> FALSE]
            ELSE IF IndexPanics(R, l[1][1], l[1][2])
                 THEN [r |-> R, panic |-> TRUE]
                 ELSE [r |-> [R EXCEPT !.state[l[1][1] + 1][l[1][2] + 1] = s],
                       panic |-> FALSE]

\* Region::adjust_size, first match: width/height and anchor; `-=` wraps
\* where it does not panic
adjust_fields(R, edge, amount) ==
    CASE edge = "X"    -> [R EXCEPT !.width = saturating_add_signed(@, amount)]
      [] edge = "Y"    -> [R EXCEPT !.height = saturating_add_signed(@, amount)]
      [] edge = "NegX" -> [R EXCEPT !.width = saturating_add_signed(@, amount),
                                    !.x = wrapping_sub(@, amount)]
      [] edge = "NegY" -> [R EXCEPT !.height = saturating_add_signed(@, amount),
                                    !.y = wrapping_sub(@, amount)]

\* Region::adjust_size, first match: `self.x -= amount` or `self.y -= amount`
\* panics (overflow in a build with overflow checks); width/height is
\* already written by then
adjust_fields_panics(R, edge, amount) ==
    /\ overflow_checks
    /\ \/ edge = "NegX" /\ sub_overflows(R.x, amount)
       \/ edge = "NegY" /\ sub_overflows(R.y, amount)

\* Vec::resize(n, ..) or vec![..; n] has to allocate more than the allocator
\* grants
AllocFails(len, n) == n > len /\ n > MaxAlloc

\* Region::adjust_size, body of the Y loop for one column
adjust_Y_column(col, R1) ==
    IF AllocFails(Len(col), R1.height) THEN [col |-> col, panic |-> TRUE]
    ELSE [col |-> Resize(col, R1.height, "Dead"), panic |-> FALSE]

\* Region::adjust_size, body of the NegY loops for one column
adjust_NegY_column(col, R1, amount) ==
    IF amount >= 0
    THEN IF AllocFails(Len(col), R1.height) THEN [col |-> col, panic |-> TRUE]
         ELSE [col |-> RotateRight(Resize(col, R1.height, "Dead"), amount),
               panic |-> FALSE]
    ELSE IF -amount > Len(col)
         THEN [col |-> col, panic |-> TRUE]
         ELSE IF AllocFails(Len(col), R1.width)
              THEN [col |-> RotateLeft(col, -amount), panic |-> TRUE]
              ELSE [col |-> Resize(RotateLeft(col, -amount), R1.width, "Dead"),
                    panic |-> FALSE]

\* Region::adjust_size: [r, panic]
adjust_size(R, edge, amount) ==
    LET R1 == adjust_fields(R, edge, amount)
    IN IF adjust_fields_panics(R, edge, amount)
       THEN [r |-> [R1 EXCEPT !.x = R.x, !.y = R.y], panic |-> TRUE]
       ELSE
       CASE edge = "X" ->
              IF AllocFails(0, R1.height) \/ AllocFails(Len(R1.state), R1.width)
              THEN [r |-> R1, panic |-> TRUE]
              ELSE [r |-> [R1 EXCEPT !.state =
                              Resize(@, R1.width, Repeat("Dead", R1.height))],
                    panic |-> FALSE]
         [] edge = "Y" ->
              LET res == ForEachColumn(R1.state,
                             [i \in 1..Len(R1.state) |->
                                 adjust_Y_column(R1.state[i], R1)])
              IN [r |-> [R1 EXCEPT !.state = res.state], panic |-> res.panic]
         [] edge = "NegX" ->
              IF amount >= 0
              THEN IF AllocFails(Len(R1.state), R1.width)
                   THEN [r |-> R1, panic |-> TRUE]
                   ELSE [r |-> [R1 EXCEPT !.state =
                                   RotateRight(Resize(@, R1.width, <<"Dead">>), amount)],
                         panic |-> FALSE]
              ELSE IF -amount > Len(R1.state)
                   THEN [r |-> R1, panic |-> TRUE]
                   ELSE IF AllocFails(Len(R1.state), R1.width)
                        THEN [r |-> [R1 EXCEPT !.state = RotateLeft(@, -amount)],
                              panic |-> TRUE]
                        ELSE [r |-> [R1 EXCEPT !.state =
                                        Resize(RotateLeft(@, -amount), R1.width, <<>>)],
                              panic |-> FALSE]
         [] edge = "NegY" ->
              LET res == ForEachColumn(R1.state,
                             [i \in 1..Len(R1.state) |->
                                 adjust_NegY_column(R1.state[i], R1, amount)])
              IN [r |-> [R1 EXCEPT !.state = res.state], panic |-> res.panic]

\* Region::move_region, X movement on the outer Vec: [r, panic]
move_x(R, x) ==
    LET R1 == [R EXCEPT !.x = @ + x]
        k == IF x < 0 THEN -x ELSE x
    IN IF k > Len(R1.state) THEN [r |-> R1, panic |-> TRUE]
       ELSE IF x < 0
       THEN [r |-> [R1 EXCEPT !.state =
                       [i \in 1..Len(@) |->
                           IF i <= k THEN Repeat("Dead", R1.height)
                           ELSE RotateRight(@, k)[i]]],
             panic |-> FALSE]
       ELSE IF R1.width - k < 0 \/ R1.width - k > Len(R1.state)
       THEN [r |-> [R1 EXCEPT !.state = RotateLeft(@, k)], panic |-> TRUE]
       ELSE [r |-> [R1 EXCEPT !.state =
                       [i \in 1..Len(@) |->
                           IF i > R1.width - k THEN Repeat("Dead", R1.height)
                           ELSE RotateLeft(@, k)[i]]],
             panic |-> FALSE]

\* Region::move_region, body of the Y loops for one column
move_y_column(col, R2, y) ==
    LET k == IF y < 0 THEN -y ELSE y
    IN IF k > Len(col) THEN [col |-> col, panic |-> TRUE]
       ELSE IF y < 0
       THEN [col |-> Repeat("Dead", k) \o SubSeq(RotateRight(col, k), k + 1, Len(col)),
             panic |-> FALSE]
       ELSE IF R2.height - k < 0 \/ R2.height - k > Len(col)
       THEN [col |-> RotateLeft(col, k), panic |-> TRUE]
       ELSE [col |-> SubSeq(RotateLeft(col, k), 1, R2.height - k) \o Repeat("Dead", k),
             panic |-> FALSE]

\* Region::move_region: [r, panic]
move_region(R, x, y) ==
    LET mx == move_x(R, x)
    IN IF mx.panic THEN mx
       ELSE LET R2 == [mx.r EXCEPT !.y = @ + y]
                res == ForEachColumn(R2.state,
                           [i \in 1..Len(R2.state) |->
                               move_y_column(R2.state[i], R2, y)])
            IN [r |-> [R2 EXCEPT !.state = res.state], panic |-> res.panic]

\* Region::contains_region_corners
contains_region_corners(R, O) ==
    LET final_x == saturating_add_unsigned(O.x, O.width) - 1
        final_y == saturating_add_unsigned(O.y, O.height) - 1
        corners == <<<<O.x, O.y>>, <<O.x, final_y>>,
                     <<final_x, O.y>>, <<final_x, final_y>>>>
    IN \E i \in 1..4 : Region_pos_in_bounds(R, corners[i][1], corners[i][2])

\* Region::is_overlapping
is_overlapping(R, O) ==
    IF contains_region_corners(R, O) THEN TRUE
    ELSE IF contains_region_corners(O, R) THEN TRUE
    ELSE FALSE

\* populate_cell with `else { continue }` lost: a cell `self` does not have
\* is written as Dead
populate_cell_no_continue(R, O, x, y) ==
    IF Region_get_cell_panics(R, x, y) THEN [r |-> O, panic |-> TRUE]
    ELSE LET st == Region_get_cell(R, x, y)
         IN IF ~IsSome(st) THEN Region_set_cell(O, x, y, "Dead")
            ELSE Region_set_cell(O, x, y, st[1])

\* Region::populate_overlap, body of the inner loop for one (x, y):
\* [r, panic] with r the updated `other`
populate_cell(R, O, x, y) ==
    IF Region_get_cell_panics(R, x, y) THEN [r |-> O, panic |-> TRUE]
    ELSE LET st == Region_get_cell(R, x, y)
         IN IF ~IsSome(st) THEN [r |-> O, panic |-> FALSE]
            ELSE Region_set_cell(O, x, y, st[1])

\* Region::populate_overlap, the two nested loops from their i-th iteration
\* on; nx and ny are the lengths of the x and y ranges
RECURSIVE populate_loop(_, _, _, _, _)
populate_loop(R, O, nx, ny, i) ==
    IF i >= nx * ny THEN [r |-> O, panic |-> FALSE]
    ELSE LET res == populate_cell(R, O, O.x + (i \div ny), O.y + (i % ny))
         IN IF res.panic THEN res
            ELSE populate_loop(R, res.r, nx, ny, i + 1)

\* Region::populate_overlap: [r, panic] with r the updated `other`
populate_overlap(R, O) ==
    IF ~is_overlapping(R, O) THEN [r |-> O, panic |-> FALSE]
    ELSE populate_loop(R, O,
             saturating_add_unsigned(O.x, O.width) - O.x,
             saturating_add_unsigned(O.y, O.width) - O.y,
             0)

----------------------------------------------------------------------------
(* GameOfLife *)

\* GameOfLife::new
GameOfLife_new == <<>>

\* GameOfLife::step_cell, neighbor_offsets
neighbor_offsets ==
    << <<-1, -1>>, <<0, -1>>, <<1, -1>>,
       <<-1, 0>>,             <<1, 0>>,
       <<-1, 1>>,  <<0, 1>>,  <<1, 1>> >>

\* NextState with the arm for 2 neighbours yielding Alive instead of current
NextState_two_is_birth(current, neighbours) ==
    IF neighbours = 3 THEN "Alive"
    ELSE IF neighbours = 2 THEN "Alive"
    ELSE "Dead"

\* GameOfLife::step_cell, the match on (current_state, neighbours)
NextState(current, neighbours) ==
    IF neighbours = 3 THEN "Alive"
    ELSE IF neighbours = 2 THEN current
    ELSE "Dead"

\* GameOfLife::step_cell: [r, panic]
step_cell(R, x, y) ==
    LET offs == 1..Len(neighbor_offsets)
        nx(k) == x + neighbor_offsets[k][1]
        ny(k) == y + neighbor_offsets[k][2]
    IN IF \E k \in offs : Region_get_cell_panics(R, nx(k), ny(k))
       THEN [r |-> R, panic |-> TRUE]
       ELSE LET neighbours == Cardinality(
                    {k \in offs : Region_get_cell(R, nx(k), ny(k)) = Some("Alive")})
                cur == Region_get_cell(R, x, y)
            IN IF Region_get_cell_panics(R, x, y) \/ ~IsSome(cur)
               THEN [r |-> R, panic |-> TRUE]
               ELSE Region_set_cell(R, x, y, NextState(cur[1], neighbours))

\* GameOfLife::step_regions, the x and y loops over one region from their
\* i-th iteration on; nx and ny are the lengths of the x and y ranges
RECURSIVE step_loop(_, _, _, _)
step_loop(R, nx, ny, i) ==
    IF i >= nx * ny THEN [r |-> R, panic |-> FALSE]
    ELSE LET res == step_cell(R, R.x + (i \div ny), R.y + (i % ny))
         IN IF res.panic THEN res
            ELSE step_loop(res.r, nx, ny, i + 1)

\* GameOfLife::step_regions, the body of the loop over the regions
step_region(R) ==
    step_loop(R,
        saturating_add_unsigned(R.x, R.width) - R.x,
        saturating_add_unsigned(R.y, R.height) - R.y,
        0)

\* GameOfLife::step_regions: [regions, panic]
step_regions(rs) ==
    LET bad == {i \in 1..Len(rs) : step_region(rs[i]).panic}
        k == IF bad = {} THEN 0 ELSE CHOOSE i \in bad : \A j \in bad : i <= j
    IN [regions |-> [i \in 1..Len(rs) |->
                        IF k = 0 \/ i <= k THEN step_region(rs[i]).r ELSE rs[i]],
        panic |-> k # 0]

\* GameOfLife::step
step(rs) == step_regions(rs)

\* GameOfLife::pos_in_bounds
GameOfLife_pos_in_bounds(rs, x, y) ==
    \E i \in 1..Len(rs) : Region_pos_in_bounds(rs[i], x, y)

\* GameOfLife::get_cell: the first region that has the cell, else Dead
GameOfLife_get_cell(rs, x, y) ==
    LET has == {i \in 1..Len(rs) : IsSome(Region_get_cell(rs[i], x, y))}
    IN IF has = {} THEN "Dead"
       ELSE Region_get_cell(rs[CHOOSE i \in has : \A j \in has : i <= j], x, y)[1]

\* GameOfLife::resize_region (its body is a TODO)
resize_region(R) == R

\* GameOfLife::set_cell: [regions, panic]
GameOfLife_set_cell(rs, x, y, s) ==
    LET one(R) == IF Region_pos_in_bounds(R, x, y)
                  THEN LET res == Region_set_cell(R, x, y, s)
                       IN [r |-> resize_region(res.r), panic |-> res.panic]
                  ELSE [r |-> R, panic |-> FALSE]
        bad == {i \in 1..Len(rs) : one(rs[i]).panic}
        k == IF bad = {} THEN 0 ELSE CHOOSE i \in bad : \A j \in bad : i <= j
    IN [regions |-> [i \in 1..Len(rs) |->
                        IF k = 0 \/ i <= k THEN one(rs[i]).r ELSE rs[i]],
        panic |-> k # 0]

----------------------------------------------------------------------------
(* Inputs *)

\* the world coordinates of the extent of R
Extent(R) ==
    {c \in (R.x .. R.x + R.width - 1) \X (R.y .. R.y + R.height - 1) : TRUE}

\* Region::new(x, y, w, h) followed by set_cell(cx, cy, Alive) for every
\* (cx, cy) of alive
RegionWith(x, y, w, h, alive) ==
    [x |-> x, y |-> y, width |-> w, height |-> h,
     state |-> [i \in 1..w |-> [j \in 1..h |->
                  IF <<x + i - 1, y + j - 1>> \in alive THEN "Alive" ELSE "Dead"]]]

\* every region Region::new and set_cell build with the given anchors and sizes
InputRegions(anchors, dims) ==
    UNION {UNION {{[x |-> a[1], y |-> a[2], width |-> d[1], height |-> d[2],
                    state |-> st] : st \in [1..d[1] -> [1..d[2] -> Cell]]}
                  : d \in dims}
           : a \in anchors}

Anchors == (-MaxAnchor .. 0) \X (-MaxAnchor .. 0)

\* the region held by a variable no action of the specification uses
Unused == Region_new(0, 0, 0, 0)

\* ret before any query is made
NoCall == [args |-> <<>>, val |-> <<>>]

----------------------------------------------------------------------------
(* Region API: new, set_cell, adjust_size, move_region on one region *)

InitRegion ==
    /\ region \in InputRegions(Anchors, (0..MaxDim) \X (0..MaxDim))
    /\ other = Unused
    /\ regions = GameOfLife_new
    /\ panicked = FALSE
    /\ calls = 0
    /\ op = "new"
    /\ ret = NoCall
    /\ overflow_checks \in BOOLEAN

RegionSetCell(x, y, s) ==
    /\ ~panicked
    /\ calls < MaxCalls
    /\ LET res == Region_set_cell(region, x, y, s)
       IN /\ region' = res.r
          /\ panicked' = res.panic
    /\ calls' = calls + 1
    /\ op' = "set_cell"
    /\ UNCHANGED <<ret, overflow_checks, regions, other>>

AdjustSize(edge, amount) ==
    /\ ~panicked
    /\ calls < MaxCalls
    /\ LET res == adjust_size(region, edge, amount)
       IN /\ region' = res.r
          /\ panicked' = res.panic
    /\ calls' = calls + 1
    /\ op' = "adjust_size"
    /\ UNCHANGED <<ret, overflow_checks, regions, other>>

MoveRegion(dx, dy) ==
    /\ ~panicked
    /\ calls < MaxCalls
    /\ LET res == move_region(region, dx, dy)
       IN /\ region' = res.r
          /\ panicked' = res.panic
    /\ calls' = calls + 1
    /\ op' = "move_region"
    /\ UNCHANGED <<ret, overflow_checks, regions, other>>

Amounts == -MaxAmount .. MaxAmount

RegionCoords == (-MaxAnchor - 1) .. MaxDim

NextRegion ==
    \/ \E x \in RegionCoords, y \in RegionCoords, s \in Cell : RegionSetCell(x, y, s)
    \/ \E edge \in Edge, amount \in Amounts : AdjustSize(edge, amount)
    \/ \E dx \in Amounts, dy \in Amounts : MoveRegion(dx, dy)

SpecRegion == InitRegion /\ [][NextRegion]_vars

----------------------------------------------------------------------------
(* Region: pos_in_bounds and pos_to_local on regions at the ends of the    *)
(* coordinate range, built by Region::new and adjust_size                  *)

\* anchors of the regions queried: the origin, the least coordinate, and the
\* anchor from which MaxDim cells reach past isize::MAX, on either axis
BoundsAnchors ==
    {<<0, 0>>, <<ISIZE_MIN, 0>>, <<0, ISIZE_MIN>>,
     <<ISIZE_MAX - MaxDim + 1, 0>>, <<0, ISIZE_MAX - MaxDim + 1>>}

\* amounts of adjust_size: one cell, and the largest isize
BoundsAmounts == {1, ISIZE_MAX}

\* coordinates queried
BoundsCoords ==
    {ISIZE_MIN, -1, 0, MaxDim - 1, MaxDim, ISIZE_MAX - 1, ISIZE_MAX}

InitBounds ==
    /\ region \in {Region_new(a[1], a[2], w, h) :
                      a \in BoundsAnchors, w \in {0, MaxDim}, h \in {0, MaxDim}}
    /\ other = Unused
    /\ regions = GameOfLife_new
    /\ panicked = FALSE
    /\ calls = 0
    /\ op = "new"
    /\ ret = NoCall
    /\ overflow_checks \in BOOLEAN

PosInBounds(x, y) ==
    /\ ~panicked
    /\ ret' = [args |-> <<x, y>>, val |-> Region_pos_in_bounds(region, x, y)]
    /\ op' = "pos_in_bounds"
    /\ UNCHANGED <<regions, region, other, panicked, calls, overflow_checks>>

PosToLocal(x, y) ==
    /\ ~panicked
    /\ panicked' = Region_pos_to_local_panics(region, x, y)
    /\ ret' = [args |-> <<x, y>>,
               val |-> IF panicked' THEN None
                       ELSE Region_pos_to_local(region, x, y)]
    /\ op' = "pos_to_local"
    /\ UNCHANGED <<regions, region, other, calls, overflow_checks>>

NextBounds ==
    \/ \E edge \in Edge, amount \in BoundsAmounts : AdjustSize(edge, amount)
    \/ \E x \in BoundsCoords, y \in BoundsCoords : PosInBounds(x, y)
    \/ \E x \in BoundsCoords, y \in BoundsCoords : PosToLocal(x, y)

SpecBounds == InitBounds /\ [][NextBounds]_vars

----------------------------------------------------------------------------
(* populate_overlap of one region into another *)

\* Region::new(x, y, w, h) with every cell set to v, or (checker) with the
\* cells of even x + y set to Alive
Filled(x, y, w, h, fill) ==
    RegionWith(x, y, w, h,
        {c \in (x .. x + w - 1) \X (y .. y + h - 1) :
            \/ fill = "Alive"
            \/ fill = "Checker" /\ (c[1] + c[2]) % 2 = 0})

Fills == {"Dead", "Alive", "Checker"}

\* sizes of the two regions: every size up to MaxDim, and the two bars, one
\* cell wide, that are longer than any of those
OverlapDims ==
    ((0..MaxDim) \X (0..MaxDim)) \cup {<<MaxDim + 1, 1>>, <<1, MaxDim + 1>>}

InitOverlap ==
    /\ region \in {Filled(-MaxAnchor, -MaxAnchor, d[1], d[2], f) :
                      d \in OverlapDims, f \in Fills}
    /\ other \in {Filled(a[1], a[2], d[1], d[2], f) :
                      a \in ((-MaxAnchor - MaxDim) .. (MaxDim - MaxAnchor))
                            \X ((-MaxAnchor - MaxDim) .. (MaxDim - MaxAnchor)),
                      d \in OverlapDims, f \in Fills}
    /\ regions = GameOfLife_new
    /\ panicked = FALSE
    /\ calls = 0
    /\ op = "new"
    /\ ret = NoCall
    /\ overflow_checks \in BOOLEAN

PopulateOverlap ==
    /\ ~panicked
    /\ LET res == populate_overlap(region, other)
       IN /\ other' = res.r
          /\ panicked' = res.panic
    /\ op' = "populate_overlap"
    /\ UNCHANGED <<ret, overflow_checks, regions, region, calls>>

IsOverlapping ==
    /\ ~panicked
    /\ ret' = [args |-> <<>>, val |-> is_overlapping(region, other)]
    /\ op' = "is_overlapping"
    /\ UNCHANGED <<regions, region, other, panicked, calls, overflow_checks>>

NextOverlap ==
    \/ PopulateOverlap
    \/ IsOverlapping

SpecOverlap == InitOverlap /\ [][NextOverlap]_vars

----------------------------------------------------------------------------
(* GameOfLife: set_cell and step on a world *)

\* A GameOfLife is built with no region and no function of gol.rs pushes
\* one; the worlds with regions are those code of the module itself (which
\* sees the private field) builds from Region::new.
InitWorlds ==
    {GameOfLife_new}
    \cup {<<Region_new(a[1], a[2], w, h)>> :
             a \in Anchors, w \in 1..MaxWorldDim, h \in 1..MaxWorldDim}
    \cup {<<Region_new(0, 0, MaxDim, MaxDim), Region_new(x, 0, MaxDim, MaxDim)>> :
             x \in 1..MaxDim}

Init ==
    /\ regions \in InitWorlds
    /\ region = Unused
    /\ other = Unused
    /\ panicked = FALSE
    /\ calls = 0
    /\ op = "new"
    /\ ret = NoCall
    /\ overflow_checks \in BOOLEAN

SetCell(x, y, s) ==
    /\ ~panicked
    /\ LET res == GameOfLife_set_cell(regions, x, y, s)
       IN /\ regions' = res.regions
          /\ panicked' = res.panic
    /\ op' = "set_cell"
    /\ UNCHANGED <<ret, overflow_checks, region, other, calls>>

Step ==
    /\ ~panicked
    /\ op' = "step"
    /\ LET res == step(regions)
       IN /\ regions' = res.regions
          /\ panicked' = res.panic
    /\ UNCHANGED <<ret, overflow_checks, region, other, calls>>

WorldCoords == (-MaxAnchor - 1) .. (MaxWorldDim + 1)

Next ==
    \/ \E x \in WorldCoords, y \in WorldCoords, s \in Cell : SetCell(x, y, s)
    \/ Step

Spec == Init /\ [][Next]_vars

----------------------------------------------------------------------------
(* GameOfLife: set_cell and step on a world of two regions *)

\* the worlds of two regions of MaxDim x MaxDim cells, the second one
\* overlapping the first or adjacent to it, after set_cell(c, Alive) for
\* every c of a set S of coordinates of the two
InitPairs ==
    UNION {{<<RegionWith(0, 0, MaxDim, MaxDim, S), RegionWith(x, 0, MaxDim, MaxDim, S)>> :
               S \in SUBSET (Extent(Region_new(0, 0, MaxDim, MaxDim))
                             \cup Extent(Region_new(x, 0, MaxDim, MaxDim)))}
           : x \in 1..MaxDim}

InitPair ==
    /\ regions \in InitPairs
    /\ region = Unused
    /\ other = Unused
    /\ panicked = FALSE
    /\ calls = 0
    /\ op = "new"
    /\ ret = NoCall
    /\ overflow_checks \in BOOLEAN

SpecPair == InitPair /\ [][Next]_vars

----------------------------------------------------------------------------
(* GameOfLife: step on a world of one region that holds a pattern *)

\* the 2x2 block with minimal corner (bx, by)
Block(bx, by) ==
    {<<bx, by>>, <<bx + 1, by>>, <<bx, by + 1>>, <<bx + 1, by + 1>>}

\* the 3-cell horizontal and vertical lines with centre (cx, cy)
HLine(cx, cy) == {<<cx - 1, cy>>, <<cx, cy>>, <<cx + 1, cy>>}

VLine(cx, cy) == {<<cx, cy - 1>>, <<cx, cy>>, <<cx, cy + 1>>}

\* every cell of S and each of its 8 neighbours lies in R
HasMargin(R, S) ==
    \A c \in S : \A dx \in -1..1 : \A dy \in -1..1 :
        Region_pos_in_bounds(R, c[1] + dx, c[2] + dy)

\* the world coordinates a pattern may be placed at
LifeCoords == (-MaxAnchor - 1) .. (MaxLifeDim + 1)

\* the Alive cells a one-region world starts with
Patterns(E) ==
    {Block(c[1], c[2]) : c \in {c \in E : Block(c[1], c[2]) \subseteq E}}
    \cup {HLine(c[1], c[2]) :
            c \in {c \in E : \A n \in (c[1] - 2 .. c[1] + 2) \X (c[2] - 1 .. c[2] + 1) :
                                n \in E}}
    \cup {VLine(c[1], c[2]) :
            c \in {c \in E : \A n \in (c[1] - 2 .. c[1] + 2) \X (c[2] - 1 .. c[2] + 1) :
                                n \in E}}

\* the anchors of the region of a pattern world
LifeAnchors == {<<0, 0>>, <<-MaxAnchor, -MaxAnchor>>}

InitLife ==
    /\ regions \in UNION {UNION {
           {<<RegionWith(a[1], a[2], d[1], d[2], S)>> :
               S \in Patterns(Extent(Region_new(a[1], a[2], d[1], d[2])))}
           : d \in (2..MaxLifeDim) \X (2..MaxLifeDim)} : a \in LifeAnchors}
    /\ region = Unused
    /\ other = Unused
    /\ panicked = FALSE
    /\ calls = 0
    /\ op = "new"
    /\ ret = NoCall
    /\ overflow_checks \in BOOLEAN

NextLife == Step

SpecLife == InitLife /\ [][NextLife]_vars

----------------------------------------------------------------------------
(* Claims about the Region API, checked under SpecRegion *)

\* the buffer of R has exactly width columns of exactly height cells
ShapeOk(R) ==
    /\ Len(R.state) = R.width
    /\ \A i \in 1..Len(R.state) : Len(R.state[i]) = R.height

\* get_cell(x, y) on R returns without panicking and yields Some(v)
Reads(R, x, y, v) ==
    /\ ~Region_get_cell_panics(R, x, y)
    /\ Region_get_cell(R, x, y) = Some(v)

\* the cells of R that get_cell can read
Readable(R) ==
    {c \in Extent(R) : ~Region_get_cell_panics(R, c[1], c[2])}

\* C5: after any sequence of Region::new, set_cell, adjust_size and
\* move_region calls that returned, the outer buffer has exactly width
\* columns and every column has exactly height cells.
C5_BufferShape ==
    ~panicked => ShapeOk(region)

\* C6: adjust_size(NegX, k) with k > 0 returns having moved the anchor x by
\* -k and increased width by k; every cell of the region before keeps its
\* value at the same world coordinate, and every cell of the k newly covered
\* columns reads as Dead through get_cell for every y in [y, y + height).
C6_GrowNegX ==
    [][\A k \in 1..MaxAmount :
         AdjustSize("NegX", k) =>
           /\ ~panicked'
           /\ region'.x = region.x - k
           /\ region'.width = region.width + k
           /\ \A c \in Readable(region) :
                Reads(region', c[1], c[2], Region_get_cell(region, c[1], c[2])[1])
           /\ \A x \in (region.x - k) .. (region.x - 1) :
                \A y \in region.y .. (region.y + region.height - 1) :
                  Reads(region', x, y, "Dead")]_vars

\* the size of R along the axis of an edge
DimOf(R, edge) ==
    IF edge \in {"X", "NegX"} THEN R.width ELSE R.height

\* C7: for every edge and every negative amount whose magnitude exceeds the
\* current width/height, adjust_size returns without panicking and leaves
\* that dimension at 0 with a buffer of matching shape.
C7_ShrinkPastZero ==
    [][\A edge \in Edge : \A amount \in Amounts :
         (/\ amount < 0
          /\ -amount > DimOf(region, edge)
          /\ ShapeOk(region)
          /\ AdjustSize(edge, amount)) =>
           /\ ~panicked'
           /\ DimOf(region', edge) = 0
           /\ ShapeOk(region')]_vars

\* C8: for every signed dx, dy, move_region(dx, dy) returns having shifted
\* the anchor by exactly (dx, dy) and kept width and height; every world
\* coordinate inside both the old and the new window keeps its value, and
\* every coordinate of the new window that was not in the old one is Dead.
C8_MoveRegion ==
    [][\A dx \in Amounts : \A dy \in Amounts :
         (ShapeOk(region) /\ MoveRegion(dx, dy)) =>
           /\ ~panicked'
           /\ region'.x = region.x + dx
           /\ region'.y = region.y + dy
           /\ region'.width = region.width
           /\ region'.height = region.height
           /\ \A c \in Extent(region') :
                IF c \in Extent(region)
                THEN Reads(region', c[1], c[2], Region_get_cell(region, c[1], c[2])[1])
                ELSE Reads(region', c[1], c[2], "Dead")]_vars

----------------------------------------------------------------------------
(* Claims about populate_overlap, checked under SpecOverlap *)

\* C9: after A.populate_overlap(B) has returned, every world coordinate
\* contained in both A and B has in B the value it has in A.
C9_OverlapComplete ==
    (op = "populate_overlap" /\ ~panicked) =>
        \A c \in Extent(region) \cap Extent(other) :
            Region_get_cell(other, c[1], c[2]) = Region_get_cell(region, c[1], c[2])

\* C10: A.populate_overlap(B) returns leaving A unchanged, B's anchor, width
\* and height unchanged, and every cell of B whose world coordinate is not
\* contained in A at its prior value.
C10_OverlapFrame ==
    [][PopulateOverlap =>
         /\ ~panicked'
         /\ region' = region
         /\ other'.x = other.x
         /\ other'.y = other.y
         /\ other'.width = other.width
         /\ other'.height = other.height
         /\ \A c \in Extent(other) \ Extent(region) :
              Region_get_cell(other', c[1], c[2]) = Region_get_cell(other, c[1], c[2])]_vars

\* populate_overlap has copied a Dead cell of A into B while B keeps an
\* Alive cell outside A
C10_Witness ==
    /\ op = "populate_overlap"
    /\ ~panicked
    /\ is_overlapping(region, other)
    /\ \E c \in Extent(other) \ Extent(region) :
          Region_get_cell(other, c[1], c[2]) = Some("Alive")
    /\ \E c \in Extent(other) \cap Extent(region) :
          /\ Region_get_cell(region, c[1], c[2]) = Some("Dead")
          /\ Region_get_cell(other, c[1], c[2]) = Some("Dead")

\* C13: A.is_overlapping(B) is true if and only if at least one world
\* coordinate is contained in both A and B; in particular, when no corner of
\* either region lies inside the other, the regions share no cell.
C13_OverlapGeometric ==
    op = "is_overlapping" =>
        (ret.val <=> \E c \in Extent(region) : Region_pos_in_bounds(other, c[1], c[2]))

----------------------------------------------------------------------------
(* Claims about GameOfLife *)

\* the number of Alive cells among the 8 neighbours of (x, y) in the world rs
LiveNeighbours(rs, x, y) ==
    Cardinality({k \in 1..Len(neighbor_offsets) :
        GameOfLife_get_cell(rs, x + neighbor_offsets[k][1],
                                y + neighbor_offsets[k][2]) = "Alive"})

\* C1 (checked under Spec): for every region and every cell in its extent,
\* the cell's value after step() is the standard rule (3 live neighbours ->
\* Alive, 2 -> unchanged, otherwise Dead) applied to the number of Alive
\* cells among its 8 neighbours as they were before step() began.
C1_StepFromPreStep ==
    [][Step =>
         /\ ~panicked'
         /\ \A i \in 1..Len(regions) : \A c \in Extent(regions[i]) :
              LET cur == Region_get_cell(regions[i], c[1], c[2])[1]
                  n == LiveNeighbours(regions, c[1], c[2])
                  rule == IF n = 3 THEN "Alive" ELSE IF n = 2 THEN cur ELSE "Dead"
              IN Region_get_cell(regions'[i], c[1], c[2]) = Some(rule)]_vars

\* the Alive cells of region R
AliveSet(R) ==
    {c \in Extent(R) : Region_get_cell(R, c[1], c[2]) = Some("Alive")}

\* rs is a world of one region whose only Alive cells are S
OneRegionWith(rs, S) ==
    Len(rs) = 1 /\ AliveSet(rs[1]) = S

\* C2 (checked under SpecLife): in a world of one region whose only Alive
\* cells are a 3-cell horizontal line with a Dead margin around it, one
\* step() yields exactly the vertical line through the same centre, and a
\* step() of that vertical line yields the horizontal line again.
C2_Blinker ==
    [][Step =>
         \A c \in LifeCoords \X LifeCoords :
           (Len(regions) = 1 /\ HasMargin(regions[1], HLine(c[1], c[2]))) =>
             /\ OneRegionWith(regions, HLine(c[1], c[2]))
                  => OneRegionWith(regions', VLine(c[1], c[2]))
             /\ OneRegionWith(regions, VLine(c[1], c[2]))
                  => OneRegionWith(regions', HLine(c[1], c[2]))]_vars

\* rs is a world of one region whose only Alive cells are a 2x2 block
IsBlockWorld(rs) ==
    /\ Len(rs) = 1
    /\ LET alive == AliveSet(rs[1])
       IN \E c \in alive : alive = Block(c[1], c[2])

\* C3 (checked under SpecLife): in a world of one region whose only Alive
\* cells are a 2x2 block, step() returns and leaves the region's anchor,
\* size and cell values unchanged; so the block world is kept by any number
\* of step() calls.
C3_StillLife ==
    [][(Step /\ IsBlockWorld(regions)) =>
         (~panicked' /\ regions' = regions)]_vars

\* a block world, the block with Dead cells of the region on every side,
\* after step() has run on it
C3_Witness ==
    /\ op = "step"
    /\ ~panicked
    /\ IsBlockWorld(regions)
    /\ HasMargin(regions[1], AliveSet(regions[1]))

\* C4 (checked under Spec): set_cell(x, y, state) on a coordinate that no
\* region contains (also in a world with no region) makes a region cover it,
\* so that get_cell(x, y) afterwards returns the state that was set.
C4_SetCellOutside ==
    [][\A x \in WorldCoords : \A y \in WorldCoords : \A s \in Cell :
         (~GameOfLife_pos_in_bounds(regions, x, y) /\ SetCell(x, y, s)) =>
           /\ ~panicked'
           /\ GameOfLife_pos_in_bounds(regions', x, y)
           /\ GameOfLife_get_cell(regions', x, y) = s]_vars

\* region j reads or writes the cell n before region i's sweep reaches the
\* cell c: the regions are stepped in order, each by columns of ascending x
\* and, within a column, ascending y
SweptBefore(i, c, j, n) ==
    \/ j < i
    \/ j = i /\ (n[1] < c[1] \/ (n[1] = c[1] /\ n[2] < c[2]))

\* every copy of a neighbour of c that step() has rewritten by the time it
\* reaches c in region i has kept its value, so that the neighbours of c
\* look the same whether they are read before, during or after the sweep
NeighboursSettled(i, c) ==
    \A k \in 1..Len(neighbor_offsets) : \A j \in 1..Len(regions) :
        LET n == <<c[1] + neighbor_offsets[k][1], c[2] + neighbor_offsets[k][2]>>
        IN (SweptBefore(i, c, j, n) /\ Region_pos_in_bounds(regions[j], n[1], n[2]))
             => Region_get_cell(regions'[j], n[1], n[2])
                  = Region_get_cell(regions[j], n[1], n[2])

\* C11 (checked under SpecPair): step() counts the neighbours of a cell of a
\* region at world level: a neighbour coordinate that lies in another region
\* of the same GameOfLife counts by its state there, and only a neighbour
\* outside all regions counts as Dead; so a cell whose neighbours are
\* settled gets the rule applied to the world-level count.
C11_WorldLevelNeighbours ==
    [][Step =>
         \A i \in 1..Len(regions) : \A c \in Extent(regions[i]) :
           NeighboursSettled(i, c) =>
             Region_get_cell(regions'[i], c[1], c[2]) =
               Some(NextState(Region_get_cell(regions[i], c[1], c[2])[1],
                              LiveNeighbours(regions, c[1], c[2])))]_vars

----------------------------------------------------------------------------
(* Claims about Region containment, checked under SpecBounds *)

\* x + width and y + height of R are within the signed coordinate range
Fits(R) ==
    R.x + R.width <= ISIZE_MAX /\ R.y + R.height <= ISIZE_MAX

\* x <= wx < x + width and y <= wy < y + height
Inside(R, wx, wy) ==
    /\ R.x <= wx /\ wx < R.x + R.width
    /\ R.y <= wy /\ wy < R.y + R.height

\* C12: pos_in_bounds(wx, wy) is true iff x <= wx < x + width and
\* y <= wy < y + height; when x + width or y + height exceeds the signed
\* coordinate range it is false for every coordinate, with no wrap-around
\* and no panic; and pos_to_local(wx, wy) returns Some((wx - x, wy - y))
\* exactly when pos_in_bounds(wx, wy) is true, None otherwise.
C12_Containment ==
    /\ op = "pos_in_bounds" =>
         /\ ~panicked
         /\ ret.val = (Fits(region) /\ Inside(region, ret.args[1], ret.args[2]))
    /\ op = "pos_to_local" =>
         /\ ~panicked
         /\ ret.val = IF Region_pos_in_bounds(region, ret.args[1], ret.args[2])
                      THEN Some(<<ret.args[1] - region.x, ret.args[2] - region.y>>)
                      ELSE None

====
